---- MODULE Spec2Model ----
(***************************************************************************)
(* ConversationMemory (core/retrieval.py): a bounded, append-only log of   *)
(* text entries with keyword-relevance retrieval.                          *)
(*                                                                         *)
(* A character is a one-character string and a text is a sequence of       *)
(* characters, so that lowercasing, the two regular expressions and the    *)
(* substring test are computed on characters as the code computes them.    *)
(* A Python value held in a metadata bag is a pair <<type name, payload>>. *)
(***************************************************************************)
EXTENDS Integers, Sequences, FiniteSets, TLC

VARIABLES
    entries,        \* self.entries: the list of entry dicts, oldest first
    max_entries,    \* self.max_entries
    now,            \* the wall clock datetime.now() reads
    call,           \* the last call made on the object and its arguments
    raised,         \* whether that call ended in an exception
    result,         \* what that call returned (a list of texts; <<>> for None)
    scored,         \* query's local scored_entries, scores in store order
    nadds,          \* number of add calls made so far
    fresh_adds,     \* number of add calls since __init__ or the last clear
    frame,          \* a query in progress on another thread: its loop state
    agent,          \* the ArchitectureAgent's own fields
    memory          \* the agent's ProjectMemory: its class and self.data

vars ==
    <<entries, max_entries, now, call, raised, result, scored, nadds, fresh_adds,
      frame, agent, memory>>

---------------------------------------------------------------------------
(* Bounds of the model *)

\* add calls in one run of Spec
MaxAdds == 2

\* add calls in one run of SpecBound (Scenario B inserts 105 entries)
MaxAddsBound == 105

\* add calls that may still follow a clear in one run of SpecBound
MaxAddsAfterClear == 5

\* the largest n passed to query and get_recent
MaxN == 2

\* pieces a text of SpecKeywords is made of
MaxPieces == 3

\* add calls in one run of SpecTunable
MaxAddsTunable == 4

\* the largest value assigned to max_entries in SpecTunable
MaxTunable == 2

---------------------------------------------------------------------------
(* Characters and character classes of Python's re module (str patterns) *)

LowerLetters ==
    <<"a","b","c","d","e","f","g","h","i","j","k","l","m",
      "n","o","p","q","r","s","t","u","v","w","x","y","z">>

UpperLetters ==
    <<"A","B","C","D","E","F","G","H","I","J","K","L","M",
      "N","O","P","Q","R","S","T","U","V","W","X","Y","Z">>

DigitChars == <<"0","1","2","3","4","5","6","7","8","9">>

Range(s) == {s[i] : i \in DOMAIN s}

Min(a, b) == IF a <= b THEN a ELSE b

Max(a, b) == IF a >= b THEN a ELSE b

\* str.lower() on one character
LowerChar(c) ==
    IF c \in Range(UpperLetters)
    THEN LowerLetters[CHOOSE i \in DOMAIN UpperLetters : UpperLetters[i] = c]
    ELSE c

\* str.lower()
RECURSIVE Lower(_)
Lower(s) == IF s = <<>> THEN <<>> ELSE <<LowerChar(Head(s))>> \o Lower(Tail(s))

\* the class [a-z0-9]
AlnumChars == Range(LowerLetters) \cup Range(DigitChars)

\* letters outside ASCII that occur in the input texts
NonAsciiLetters == {"é"}

\* the class \w of a str pattern: Unicode letters, digits and the underscore
WordChars == AlnumChars \cup Range(UpperLetters) \cup NonAsciiLetters \cup {"_"}

\* the class \s
SpaceChars == {" ", "\t", "\n"}

\* \b at offset p (0..Len(s)): exactly one of the characters around it is \w
WordAt(s, i) == i \in 1..Len(s) /\ s[i] \in WordChars

Boundary(s, p) == WordAt(s, p) # WordAt(s, p + 1)

\* a greedy X+ from offset p, X a character class: the offset where the run
\* of X ends (p when there is none)
RECURSIVE RunEnd(_, _, _)
RunEnd(s, p, X) ==
    IF p < Len(s) /\ s[p + 1] \in X THEN RunEnd(s, p + 1, X) ELSE p

\* "".join(chars)
RECURSIVE JoinChars(_)
JoinChars(s) == IF s = <<>> THEN "" ELSE Head(s) \o JoinChars(Tail(s))

---------------------------------------------------------------------------
(* Python list slicing *)

\* s[start:]
SliceFrom(s, start) ==
    LET lo == IF start < 0 THEN Max(Len(s) + start, 0) ELSE Min(start, Len(s))
    IN  SubSeq(s, lo + 1, Len(s))

\* s[stop:] written for s[:stop]
SliceTo_FromStop(s, stop) ==
    LET lo == IF stop < 0 THEN Max(Len(s) + stop, 0) ELSE Min(stop, Len(s))
    IN  SubSeq(s, lo + 1, Len(s))

\* s[:stop]
SliceTo(s, stop) ==
    LET hi == IF stop < 0 THEN Max(Len(s) + stop, 0) ELSE Min(stop, Len(s))
    IN  SubSeq(s, 1, hi)

\* reversed(s)
Reversed(s) == [i \in 1..Len(s) |-> s[Len(s) + 1 - i]]

---------------------------------------------------------------------------
(* Python values in a metadata bag *)

PyStr(s) == <<"str", s>>

PyNone == <<"NoneType", "">>

\* a list holding one string: an unhashable value
PyList(s) == <<"list", s>>

\* marks a key the dict does not hold (not a Python value)
Absent == <<"absent", "">>

EmptyDict == [id |-> Absent, type |-> Absent]

\* dict.get(key, default)
DictGet(d, key, default) == IF d[key] = Absent THEN default ELSE d[key]

\* hash(v) raises TypeError for a list
Unhashable(v) == v[1] = "list"

---------------------------------------------------------------------------
(* _extract_keywords *)

stop_words ==
    {"the", "a", "an", "and", "or", "but", "in", "on", "at", "to", "for",
     "of", "with", "by", "from", "as", "is", "was", "are", "were", "be",
     "been", "being", "have", "has", "had", "do", "does", "did", "will",
     "would", "should", "could", "may", "might", "must", "can", "this",
     "that", "these", "those", "i", "you", "he", "she", "it", "we", "they"}

\* the match taken one character short
TokenEnd_DropLast(s, p) ==
    LET q    == RunEnd(s, p, AlnumChars)
        ends == {e \in (p + 1)..q : Boundary(s, e)}
    IN  IF Boundary(s, p) /\ ends # {}
        THEN (CHOOSE e \in ends : \A f \in ends : f <= e) - 1
        ELSE p

\* \b[a-z0-9]+\b tried at offset p: the offset where the match ends, p if none
TokenEnd(s, p) ==
    LET q    == RunEnd(s, p, AlnumChars)
        ends == {e \in (p + 1)..q : Boundary(s, e)}
    IN  IF Boundary(s, p) /\ ends # {}
        THEN CHOOSE e \in ends : \A f \in ends : f <= e
        ELSE p

\* re.findall(r'\b[a-z0-9]+\b', s), scanning from offset p
RECURSIVE FindTokens(_, _)
FindTokens(s, p) ==
    IF p >= Len(s) THEN <<>>
    ELSE LET e == TokenEnd(s, p)
         IN  IF e > p
             THEN <<SubSeq(s, p + 1, e)>> \o FindTokens(s, e)
             ELSE FindTokens(s, p + 1)

ExtractKeywords(text) ==
    LET words == FindTokens(Lower(text), 0)
    IN  {JoinChars(words[i]) : i \in
            {k \in DOMAIN words :
                JoinChars(words[k]) \notin stop_words /\ Len(words[k]) > 2}}

---------------------------------------------------------------------------
(* _calculate_relevance_score *)

\* the overlap without its cap
KeywordScore_Uncapped(entry, query_keywords) ==
    IF query_keywords # {} /\ entry.keywords # {}
    THEN Cardinality(query_keywords \cap entry.keywords) * 2
    ELSE 0

\* 1. keyword overlap, capped at 10
KeywordScore(entry, query_keywords) ==
    IF query_keywords # {} /\ entry.keywords # {}
    THEN Min(Cardinality(query_keywords \cap entry.keywords) * 2, 10)
    ELSE 0

\* the table with general (and the default) worth nothing
TypePriority_GeneralZero(t) ==
    CASE t = PyStr("requirements")    -> 5
      [] t = PyStr("architecture")    -> 5
      [] t = PyStr("explanation")     -> 4
      [] t = PyStr("recommendations") -> 3
      [] t = PyStr("qa")              -> 2
      [] OTHER                        -> 0

\* the lookup with default 0: type_priority.get(entry["type"], 0)
TypePriority_UnknownZero(t) ==
    CASE t = PyStr("requirements")    -> 5
      [] t = PyStr("architecture")    -> 5
      [] t = PyStr("explanation")     -> 4
      [] t = PyStr("recommendations") -> 3
      [] t = PyStr("qa")              -> 2
      [] t = PyStr("general")         -> 1
      [] OTHER                        -> 0

\* 2. type_priority.get(entry["type"], 1), for a hashable type value
TypePriority(t) ==
    CASE t = PyStr("requirements")    -> 5
      [] t = PyStr("architecture")    -> 5
      [] t = PyStr("explanation")     -> 4
      [] t = PyStr("recommendations") -> 3
      [] t = PyStr("qa")              -> 2
      [] t = PyStr("general")         -> 1
      [] OTHER                        -> 1

\* self.entries.index(entry): the zero-based position of the first element
\* equal to entry (dict equality compares every field)
Index(es, entry) ==
    (CHOOSE i \in 1..Len(es) :
        es[i] = entry /\ \A j \in 1..(i - 1) : es[j] # entry) - 1

\* \b\w+\s+\w+\s+\w+\b tried at offset p: the offset where the match ends,
\* p if none (the classes \w and \s are disjoint, so each greedy run is the
\* only way to match)
PhraseEnd(s, p) ==
    LET e1 == RunEnd(s, p, WordChars)
        e2 == RunEnd(s, e1, SpaceChars)
        e3 == RunEnd(s, e2, WordChars)
        e4 == RunEnd(s, e3, SpaceChars)
        e5 == RunEnd(s, e4, WordChars)
    IN  IF /\ Boundary(s, p)
           /\ e1 > p /\ e2 > e1 /\ e3 > e2 /\ e4 > e3 /\ e5 > e4
           /\ Boundary(s, e5)
        THEN e5
        ELSE p

\* re.findall(r'\b\w+\s+\w+\s+\w+\b', s), scanning from offset p: matches do
\* not overlap, the scan resumes where the last match ended
RECURSIVE FindPhrases(_, _)
FindPhrases(s, p) ==
    IF p >= Len(s) THEN <<>>
    ELSE LET e == PhraseEnd(s, p)
         IN  IF e > p
             THEN <<SubSeq(s, p + 1, e)>> \o FindPhrases(s, e)
             ELSE FindPhrases(s, p + 1)

\* sub in s
IsSubstring(sub, s) ==
    \E i \in 0..(Len(s) - Len(sub)) : SubSeq(s, i + 1, i + Len(sub)) = sub

\* the loop without its break: 5 for every query phrase found
PhraseBonus_PerPhrase(entry, query_text) ==
    LET entry_text_lower == Lower(entry.text)
        query_phrases    == FindPhrases(query_text, 0)
    IN  5 * Cardinality({k \in DOMAIN query_phrases :
                            IsSubstring(query_phrases[k], entry_text_lower)})

\* 4. exact phrase matching: 5 once, for the first query phrase found
PhraseBonus(entry, query_text) ==
    LET entry_text_lower == Lower(entry.text)
        query_phrases    == FindPhrases(query_text, 0)
    IN  IF \E k \in DOMAIN query_phrases :
               IsSubstring(query_phrases[k], entry_text_lower)
        THEN 5
        ELSE 0

\* 3. recency, (entry_index / len(self.entries)) * 2, times len(self.entries)
RecencyTimesLen(es, entry) == Index(es, entry) * 2

\* The score times len(self.entries): scores of one query share the
\* denominator, so they compare as these integers do.  The arithmetic is
\* exact; the code's floats round by less than 1e-14, while two scores of one
\* query that differ at all differ by at least 1/len(self.entries).  Two
\* scores that are equal here are equal floats as long as 2*i/len is a float
\* without rounding or no two scores tie, which holds for the stores of every
\* specification below (ties occur only with 1 or 2 entries).
CalculateRelevanceScore(es, entry, query_keywords, query_text) ==
    (KeywordScore(entry, query_keywords)
        + TypePriority(entry.type)
        + PhraseBonus(entry, query_text)) * Len(es)
    + RecencyTimesLen(es, entry)

---------------------------------------------------------------------------
(* add *)

\* metadata = metadata or {}: None and the empty dict both give {}
OrEmpty(metadata) ==
    IF metadata.none \/ metadata.dict = EmptyDict THEN EmptyDict ELSE metadata.dict

\* the auto id counted from one
NewEntry_IdFromOne(es, text, metadata, ts) ==
    [id        |-> DictGet(metadata, "id", PyStr("entry_" \o ToString(Len(es) + 1))),
     text      |-> text,
     type      |-> DictGet(metadata, "type", PyStr("general")),
     keywords  |-> ExtractKeywords(text),
     timestamp |-> ts,
     metadata  |-> metadata]

\* the auto id taken from a count of all adds made, which clear does not reset
NewEntry_IdFromCounter(es, text, metadata, ts) ==
    [id        |-> DictGet(metadata, "id", PyStr("entry_" \o ToString(nadds))),
     text      |-> text,
     type      |-> DictGet(metadata, "type", PyStr("general")),
     keywords  |-> ExtractKeywords(text),
     timestamp |-> ts,
     metadata  |-> metadata]

\* the entry dict add builds
NewEntry(es, text, metadata, ts) ==
    [id        |-> DictGet(metadata, "id", PyStr("entry_" \o ToString(Len(es)))),
     text      |-> text,
     type      |-> DictGet(metadata, "type", PyStr("general")),
     keywords  |-> ExtractKeywords(text),
     timestamp |-> ts,
     metadata  |-> metadata]

\* the slice taken one entry too long
Evict_KeepOneMore(es, m) == IF Len(es) > m THEN SliceFrom(es, -(m + 1)) ELSE es

\* the slice taken from the wrong end
Evict_DropNewest(es, m) == IF Len(es) > m THEN SliceTo(es, m) ELSE es

\* if len(self.entries) > self.max_entries:
\*     self.entries = self.entries[-self.max_entries:]
Evict(es, m) == IF Len(es) > m THEN SliceFrom(es, -m) ELSE es

\* the new entry put first (list.insert(0, entry)) instead of appended
AddEntries_InsertFirst(es, m, text, metadata, ts) ==
    Evict(<<NewEntry(es, text, OrEmpty(metadata), ts)>> \o es, m)

AddEntries(es, m, text, metadata, ts) ==
    Evict(Append(es, NewEntry(es, text, OrEmpty(metadata), ts)), m)

---------------------------------------------------------------------------
(* query, get_by_type, get_recent *)

\* the scoring loop from position i on: one score per entry, in store order
RECURSIVE ScoreFrom(_, _, _, _)
ScoreFrom(es, i, query_keywords, query_text) ==
    IF i > Len(es) THEN <<>>
    ELSE <<CalculateRelevanceScore(es, es[i], query_keywords, query_text)>>
         \o ScoreFrom(es, i + 1, query_keywords, query_text)

ScoreAll(es, prompt) == ScoreFrom(es, 1, ExtractKeywords(prompt), Lower(prompt))

\* the sort without reverse=True
SortPlace_Ascending(sc, i) ==
    Cardinality({j \in DOMAIN sc : sc[j] < sc[i] \/ (sc[j] = sc[i] /\ j < i)}) + 1

\* equal scores placed latest first, as sorting ascending and then reversing
\* the list would place them
SortPlace_TiesReversed(sc, i) ==
    Cardinality({j \in DOMAIN sc : sc[j] > sc[i] \/ (sc[j] = sc[i] /\ j > i)}) + 1

\* list.sort(key=score, reverse=True) is stable: the place of element i is
\* after every higher score and after the equal scores that came before it
SortPlace(sc, i) ==
    Cardinality({j \in DOMAIN sc : sc[j] > sc[i] \/ (sc[j] = sc[i] /\ j < i)}) + 1

\* the store positions in sorted order, from place r on
RECURSIVE SortFrom(_, _)
SortFrom(sc, r) ==
    IF r > Len(sc) THEN <<>>
    ELSE <<CHOOSE i \in DOMAIN sc : SortPlace(sc, i) = r>> \o SortFrom(sc, r + 1)

SortDesc(sc) == SortFrom(sc, 1)

\* [entry["text"] for score, entry in top_entries if score > 0]
RECURSIVE PositiveTexts(_, _, _)
PositiveTexts(es, sc, top) ==
    IF top = <<>> THEN <<>>
    ELSE (IF sc[Head(top)] > 0 THEN <<es[Head(top)].text>> ELSE <<>>)
         \o PositiveTexts(es, sc, Tail(top))

\* the empty store not returned early, and the best score of no entries
\* asked for (max of an empty list raises)
QueryRaises_EmptyStore(es) ==
    es = <<>> \/ \E i \in 1..Len(es) : Unhashable(es[i].type)

\* whether the scoring loop raises: the type lookup hashes entry["type"]
QueryRaises(es) == \E i \in 1..Len(es) : Unhashable(es[i].type)

\* what query returns once the scores sc are computed
TopTexts(es, sc, n) == PositiveTexts(es, sc, SliceTo(SortDesc(sc), n))

\* the matching texts collected newest first
RECURSIVE TextsOfType_NewestFirst(_, _)
TextsOfType_NewestFirst(es, entry_type) ==
    IF es = <<>> THEN <<>>
    ELSE TextsOfType_NewestFirst(Tail(es), entry_type)
         \o (IF Head(es).type = entry_type THEN <<Head(es).text>> ELSE <<>>)

RECURSIVE TextsOfType(_, _)
TextsOfType(es, entry_type) ==
    IF es = <<>> THEN <<>>
    ELSE (IF Head(es).type = entry_type THEN <<Head(es).text>> ELSE <<>>)
         \o TextsOfType(Tail(es), entry_type)

GetByTypeResult(es, entry_type) == TextsOfType(es, entry_type)

RECURSIVE TextsOf(_)
TextsOf(es) == IF es = <<>> THEN <<>> ELSE <<Head(es).text>> \o TextsOf(Tail(es))

GetRecentResult(es, n) ==
    LET recent == IF Len(es) >= n THEN SliceFrom(es, -n) ELSE es
    IN  TextsOf(Reversed(recent))

---------------------------------------------------------------------------
(* Inputs *)

TextLogHabits == <<"l","o","g"," ","h","a","b","i","t","s">>

TextInsights ==
    <<"G","e","n","e","r","a","t","e"," ","i","n","s","i","g","h","t","s"," ",
      "a","b","o","u","t"," ","u","s","e","r","s">>

PromptHabits == <<"h","a","b","i","t","s"," ","l","o","g">>

PromptPlease ==
    <<"p","l","e","a","s","e"," ","g","e","n","e","r","a","t","e"," ",
      "i","n","s","i","g","h","t","s"," ","a","b","o","u","t">>

PromptInsights ==
    <<"g","e","n","e","r","a","t","e"," ","i","n","s","i","g","h","t","s"," ",
      "a","b","o","u","t">>

PromptStop == <<"t","h","e"," ","a"," ","a","n">>

Texts == {TextLogHabits, TextInsights}

Prompts == {PromptHabits, PromptPlease, PromptInsights, PromptStop}

\* the metadata argument: None, or a dict
NoMetadata == [none |-> TRUE, dict |-> EmptyDict]

Dict(id, type) == [none |-> FALSE, dict |-> [id |-> id, type |-> type]]

Metadatas == {NoMetadata, Dict(PyStr("r1"), PyStr("qa"))}

\* bags whose id or type is not a string: null, and a list
OpaqueMetadatas ==
    {NoMetadata,
     Dict(PyNone, PyNone),
     Dict(Absent, PyList("qa"))}

TypeTags == {PyStr("general"), PyStr("qa")}

Ns == 0..MaxN

\* the decimal digits of k, as str(k) gives them
RECURSIVE DigitsOf(_)
DigitsOf(k) ==
    IF k < 10 THEN <<DigitChars[k + 1]>>
    ELSE DigitsOf(k \div 10) \o <<DigitChars[(k % 10) + 1]>>

\* the text of the k-th add of SpecBound: "note <k>"
OrdinalText(k) == <<"n","o","t","e"," ">> \o DigitsOf(k)

PromptNote == <<"n","o","t","e"," ","6">>

---------------------------------------------------------------------------
(* ProjectMemory.  The repository holds two classes of this name: memory.py *)
(* (requirements, architecture, decisions, open questions) and              *)
(* core/memory.py (task analysis), which core/agent.py imports and which    *)
(* lacks most of the methods the agent calls.                               *)

MemoryClasses == {"memory.py", "core/memory.py"}

\* the keys of self.data["requirements"]
Categories(class) ==
    IF class = "memory.py"
    THEN {"functional", "nonfunctional", "constraints", "assumptions", "risks"}
    ELSE {"functional", "technical", "business", "timeline_budget", "risks"}

\* the methods of the class that the agent's plan and answer call
Methods(class) ==
    IF class = "memory.py"
    THEN {"set_initial_idea", "get_initial_idea", "add_requirements_batch",
          "get_requirements", "get_all_requirements_text",
          "set_architecture_style", "get_architecture_style",
          "add_components_batch", "add_data_flow", "add_decision",
          "add_open_question", "set_tech_stack", "get_summary"}
    ELSE {"add_requirements_batch", "get_requirements",
          "get_all_requirements_text", "get_summary"}

\* self.data after __init__; sections stands for every key of self.data
\* other than requirements, decisions and open_questions (each None or
\* empty), which no method modelled here writes except through plan
NewProjectMemory(class) ==
    [class |-> class,
     data  |-> [requirements   |-> [c \in Categories(class) |-> <<>>],
                decisions      |-> <<>>,
                open_questions |-> <<>>,
                sections       |-> "unset"]]

\* whether calling the method raises AttributeError
Lacks(m, method) == method \notin Methods(m.class)

\* add_requirement(category, requirement) on a known category, at time ts
WithRequirement(m, category, requirement, ts) ==
    [m EXCEPT !.data.requirements[category] =
                  Append(@, [text |-> requirement, added_at |-> ts])]

\* add_requirements_batch(category, requirements): add_requirement for each
\* in turn; the first call raises if the category is unknown
RECURSIVE WithRequirements(_, _, _, _)
WithRequirements(m, category, requirements, ts) ==
    IF requirements = <<>> THEN m
    ELSE WithRequirements(WithRequirement(m, category, Head(requirements), ts),
                          category, Tail(requirements), ts)

\* add_decision(decision, rationale)
WithDecision(m, decision, rationale, ts) ==
    [m EXCEPT !.data.decisions =
                  Append(@, [decision |-> decision, rationale |-> rationale,
                             timestamp |-> ts])]

\* add_open_question(question)
WithOpenQuestion(m, question, ts) ==
    [m EXCEPT !.data.open_questions =
                  Append(@, [question |-> question, added_at |-> ts,
                             resolved |-> FALSE])]

---------------------------------------------------------------------------
(* ArchitectureAgent.__init__, and no query in progress *)

NewAgent == [planning_complete |-> FALSE]

\* active: the loop "for entry in self.entries" is running; shared: the list
\* object it iterates is still the one self.entries names; list: that list
\* object once self.entries names another; i: entries scored so far; start:
\* self.entries when the query began
NoFrame ==
    [active |-> FALSE, list |-> <<>>, shared |-> FALSE, i |-> 0, start |-> <<>>]

---------------------------------------------------------------------------
(* The object after __init__, and its methods *)

DefaultMaxEntries == 100

\* the default n of query, which Scenario A and the agent pass
DefaultN == 5

NoCall == [op |-> "init", text |-> <<>>, n |-> 0,
           metadata |-> NoMetadata, entry_type |-> PyNone]

Init ==
    /\ entries = <<>>
    /\ max_entries = DefaultMaxEntries
    /\ now = 0
    /\ call = NoCall
    /\ raised = FALSE
    /\ result = <<>>
    /\ scored = <<>>
    /\ nadds = 0
    /\ fresh_adds = 0
    /\ frame = NoFrame
    /\ agent = NewAgent
    /\ memory = NewProjectMemory("core/memory.py")

\* add(text, metadata) while the clock reads ts
Add(text, metadata, ts) ==
    /\ entries' = AddEntries(entries, max_entries, text, metadata, ts)
    /\ now' = ts
    /\ call' = [NoCall EXCEPT !.op = "add", !.text = text, !.metadata = metadata]
    /\ raised' = FALSE
    /\ result' = <<>>
    /\ scored' = <<>>
    /\ nadds' = nadds + 1
    /\ fresh_adds' = fresh_adds + 1
    /\ UNCHANGED <<max_entries, frame, agent, memory>>

Clear ==
    /\ entries' = <<>>
    /\ call' = [NoCall EXCEPT !.op = "clear"]
    /\ raised' = FALSE
    /\ result' = <<>>
    /\ scored' = <<>>
    /\ fresh_adds' = 0
    /\ UNCHANGED <<max_entries, now, nadds, frame, agent, memory>>

Query(prompt, n) ==
    /\ call' = [NoCall EXCEPT !.op = "query", !.text = prompt, !.n = n]
    /\ IF QueryRaises(entries)
       THEN /\ raised' = TRUE
            /\ result' = <<>>
            /\ scored' = <<>>
       ELSE /\ raised' = FALSE
            /\ scored' = IF entries = <<>> THEN <<>> ELSE ScoreAll(entries, prompt)
            /\ result' = IF entries = <<>> THEN <<>> ELSE TopTexts(entries, scored', n)
    /\ UNCHANGED <<entries, max_entries, now, nadds, fresh_adds, frame, agent, memory>>

GetByType(entry_type) ==
    /\ call' = [NoCall EXCEPT !.op = "get_by_type", !.entry_type = entry_type]
    /\ raised' = FALSE
    /\ result' = GetByTypeResult(entries, entry_type)
    /\ scored' = <<>>
    /\ UNCHANGED <<entries, max_entries, now, nadds, fresh_adds, frame, agent, memory>>

\* get_recent reversing the stored list in place (list.reverse()) instead of
\* reading it with reversed()
GetRecent_ReversesStore(n) ==
    /\ call' = [NoCall EXCEPT !.op = "get_recent", !.n = n]
    /\ raised' = FALSE
    /\ result' = GetRecentResult(entries, n)
    /\ scored' = <<>>
    /\ entries' = Reversed(entries)
    /\ UNCHANGED <<max_entries, now, nadds, fresh_adds, frame, agent, memory>>

GetRecent(n) ==
    /\ call' = [NoCall EXCEPT !.op = "get_recent", !.n = n]
    /\ raised' = FALSE
    /\ result' = GetRecentResult(entries, n)
    /\ scored' = <<>>
    /\ UNCHANGED <<entries, max_entries, now, nadds, fresh_adds, frame, agent, memory>>

\* the caller assigns the tunable: memory.max_entries = m
SetMaxEntries(m) ==
    /\ max_entries' = m
    /\ call' = [NoCall EXCEPT !.op = "max_entries =", !.n = m]
    /\ raised' = FALSE
    /\ result' = <<>>
    /\ scored' = <<>>
    /\ UNCHANGED <<entries, now, nadds, fresh_adds, frame, agent, memory>>

\* _extract_keywords(text), called on its own
ExtractKeywordsCall(text) ==
    /\ call' = [NoCall EXCEPT !.op = "_extract_keywords", !.text = text]
    /\ raised' = FALSE
    /\ result' = ExtractKeywords(text)
    /\ scored' = <<>>
    /\ UNCHANGED <<entries, max_entries, now, nadds, fresh_adds, frame, agent, memory>>

---------------------------------------------------------------------------
(* Spec: any calls, with texts, metadata, prompts and n from the input sets *)

DoAdd ==
    /\ nadds < MaxAdds
    /\ \E text \in Texts, metadata \in Metadatas, ts \in {now, now + 1} :
          Add(text, metadata, ts)

DoClear == Clear

DoQuery == \E prompt \in Prompts, n \in Ns : Query(prompt, n)

DoGetByType == \E entry_type \in TypeTags : GetByType(entry_type)

DoGetRecent == \E n \in Ns : GetRecent(n)

Next == DoAdd \/ DoClear \/ DoQuery \/ DoGetByType \/ DoGetRecent

Spec == Init /\ [][Next]_vars

---------------------------------------------------------------------------
(* SpecOpaque: any calls on a store filled with metadata bags whose id and  *)
(* type values are not strings                                              *)

DoAddOpaque ==
    /\ nadds < MaxAdds
    /\ \E metadata \in OpaqueMetadatas, ts \in {now, now + 1} :
          Add(TextLogHabits, metadata, ts)

DoQueryOpaque == \E n \in Ns : Query(PromptHabits, n)

NextOpaque ==
    DoAddOpaque \/ DoClear \/ DoQueryOpaque \/ DoGetByType \/ DoGetRecent

SpecOpaque == Init /\ [][NextOpaque]_vars

---------------------------------------------------------------------------
(* SpecBound: one store filled past the default bound, the k-th add storing *)
(* the text "note <k>" with no metadata; the store is cleared only late in  *)
(* the run, with at most MaxAddsAfterClear adds left                        *)

DoAddBound ==
    /\ nadds < MaxAddsBound
    /\ Add(OrdinalText(nadds + 1), NoMetadata, now + 1)

DoClearBound ==
    /\ nadds + MaxAddsAfterClear >= MaxAddsBound
    /\ Clear

DoQueryBound == Query(PromptNote, 5)

DoGetByTypeBound == GetByType(PyStr("general"))

DoGetRecentBound == GetRecent(5)

NextBound ==
    DoAddBound \/ DoClearBound \/ DoQueryBound \/ DoGetByTypeBound \/ DoGetRecentBound

SpecBound == Init /\ [][NextBound]_vars

---------------------------------------------------------------------------
(* SpecOverlap: any adds, clears and queries with a text of six keywords    *)
(* and prompts that share six, two or none of them with it                  *)

TextColours ==
    <<"r","e","d"," ","g","r","e","e","n"," ","b","l","u","e"," ","c","y",
      "a","n"," ","p","i","n","k"," ","g","o","l","d">>

\* the six keywords in reverse order: no phrase of it occurs in TextColours
PromptColoursBack ==
    <<"g","o","l","d"," ","p","i","n","k"," ","c","y","a","n"," ","b","l",
      "u","e"," ","g","r","e","e","n"," ","r","e","d">>

DoAddOverlap ==
    /\ nadds < MaxAdds
    /\ \E text \in {TextColours, TextLogHabits}, metadata \in Metadatas :
          Add(text, metadata, now + 1)

DoQueryOverlap ==
    \E prompt \in {TextColours, PromptColoursBack, PromptHabits, PromptStop},
       n \in Ns :
        Query(prompt, n)

NextOverlap == DoAddOverlap \/ DoClear \/ DoQueryOverlap

SpecOverlap == Init /\ [][NextOverlap]_vars

---------------------------------------------------------------------------
(* SpecTypes: any adds, clears and queries on a store whose entries carry   *)
(* each type tag of the priority table, a tag of the caller's own, or none  *)

TableTags ==
    {"requirements", "architecture", "explanation", "recommendations", "qa",
     "general"}

\* a type tag the table does not hold
CallerTag == "meeting_note"

TypedMetadatas ==
    {NoMetadata} \cup {Dict(Absent, PyStr(t)) : t \in TableTags \cup {CallerTag}}

DoAddTyped ==
    /\ nadds < MaxAdds
    /\ \E metadata \in TypedMetadatas : Add(TextLogHabits, metadata, now + 1)

DoQueryTyped == \E n \in Ns : Query(PromptStop, n)

NextTypes == DoAddTyped \/ DoClear \/ DoQueryTyped

SpecTypes == Init /\ [][NextTypes]_vars

---------------------------------------------------------------------------
(* SpecTunable: the k-th add stores "note <k>"; between the calls the       *)
(* caller assigns any value from 0 to MaxTunable to max_entries             *)

DoAddTunable ==
    /\ nadds < MaxAddsTunable
    /\ Add(OrdinalText(nadds + 1), NoMetadata, now + 1)

DoSetMaxEntries == \E m \in 0..MaxTunable : SetMaxEntries(m)

NextTunable ==
    DoAddTunable \/ DoSetMaxEntries \/ DoClear \/ DoQueryBound \/ DoGetRecentBound

SpecTunable == Init /\ [][NextTunable]_vars

---------------------------------------------------------------------------
(* SpecInterleaved: one thread runs query, one iteration of its scoring     *)
(* loop at a time, while another thread makes whole add and clear calls on  *)
(* the same object between the iterations (no lock is taken anywhere).      *)
(* call, raised, result and scored describe the query thread.  The tunable  *)
(* is first lowered to MaxTunable so that adds evict.                       *)

\* the list object the running loop iterates
LoopList == IF frame.shared THEN entries ELSE frame.list

\* query up to its loop: the early return, or the loop set up over self.entries
QueryBegin(prompt, n) ==
    /\ ~frame.active
    /\ call' = [NoCall EXCEPT !.op = "query", !.text = prompt, !.n = n]
    /\ raised' = FALSE
    /\ result' = <<>>
    /\ scored' = <<>>
    /\ frame' = [active |-> entries # <<>>, list |-> <<>>, shared |-> TRUE,
                 i |-> 0, start |-> entries]
    /\ UNCHANGED <<entries, max_entries, now, nadds, fresh_adds, agent, memory>>

\* one iteration: _calculate_relevance_score(entry, ...) reads self.entries
\* as it is now; self.entries.index(entry) raises ValueError when the entry
\* is no longer in it.  A score is kept with the length it was divided by.
ScoreStep ==
    /\ frame.active
    /\ frame.i < Len(LoopList)
    /\ LET entry == LoopList[frame.i + 1]
       IN  IF \A j \in 1..Len(entries) : entries[j] # entry
           THEN /\ raised' = TRUE
                /\ scored' = <<>>
                /\ frame' = [frame EXCEPT !.active = FALSE]
           ELSE /\ raised' = FALSE
                /\ scored' = Append(scored,
                      [times_len |-> CalculateRelevanceScore(entries, entry,
                                        ExtractKeywords(call.text), Lower(call.text)),
                       len       |-> Len(entries),
                       text      |-> entry.text])
                /\ frame' = [frame EXCEPT !.i = @ + 1]
    /\ UNCHANGED <<entries, max_entries, now, call, result, nadds, fresh_adds,
                   agent, memory>>

\* the product of the lengths the scores of sc were divided by
RECURSIVE LenProduct(_)
LenProduct(sc) == IF sc = <<>> THEN 1 ELSE Head(sc).len * LenProduct(Tail(sc))

\* the scores of sc brought to one denominator
RECURSIVE Rescaled(_, _)
Rescaled(sc, p) ==
    IF sc = <<>> THEN <<>>
    ELSE <<Head(sc).times_len * (p \div Head(sc).len)>> \o Rescaled(Tail(sc), p)

\* the loop is exhausted: sort, slice and filter
QueryEnd ==
    /\ frame.active
    /\ frame.i >= Len(LoopList)
    /\ result' = TopTexts(scored, Rescaled(scored, LenProduct(scored)), call.n)
    /\ frame' = [frame EXCEPT !.active = FALSE]
    /\ UNCHANGED <<entries, max_entries, now, call, raised, scored, nadds,
                   fresh_adds, agent, memory>>

\* add on the other thread: the append changes the list object the loop
\* iterates if self.entries still names it; the eviction makes self.entries
\* name a new list and leaves the old object to the loop
AddInterleaved(text, metadata, ts) ==
    /\ entries' = AddEntries(entries, max_entries, text, metadata, ts)
    /\ now' = ts
    /\ nadds' = nadds + 1
    /\ fresh_adds' = fresh_adds + 1
    /\ frame' = IF frame.shared /\ Len(entries) + 1 > max_entries
                THEN [frame EXCEPT
                         !.shared = FALSE,
                         !.list = Append(entries,
                                    NewEntry(entries, text, OrEmpty(metadata), ts))]
                ELSE frame
    /\ UNCHANGED <<max_entries, call, raised, result, scored, agent, memory>>

\* clear on the other thread: self.entries names a new, empty list
ClearInterleaved ==
    /\ entries' = <<>>
    /\ fresh_adds' = 0
    /\ frame' = IF frame.shared
                THEN [frame EXCEPT !.shared = FALSE, !.list = entries]
                ELSE frame
    /\ UNCHANGED <<max_entries, now, call, raised, result, scored, nadds,
                   agent, memory>>

DoLowerTunable ==
    /\ call.op = "init" /\ nadds = 0
    /\ SetMaxEntries(MaxTunable)

DoQueryBegin == QueryBegin(PromptNote, DefaultN)

DoAddInterleaved ==
    /\ nadds < MaxAddsTunable
    /\ AddInterleaved(OrdinalText(nadds + 1), NoMetadata, now + 1)

DoClearInterleaved ==
    /\ entries # <<>>
    /\ ClearInterleaved

NextInterleaved ==
    DoLowerTunable \/ DoQueryBegin \/ ScoreStep \/ QueryEnd
        \/ DoAddInterleaved \/ DoClearInterleaved

SpecInterleaved == Init /\ [][NextInterleaved]_vars

---------------------------------------------------------------------------
(* SpecScenarioA: any calls on a store filled with the two entries of       *)
(* Scenario A, r1 (requirements) and r2 (architecture), in any order        *)

TextR1 ==
    <<"U","s","e","r","s"," ","c","a","n"," ","l","o","g"," ","d","a","i",
      "l","y"," ","h","a","b","i","t","s">>

TextR2 ==
    <<"T","h","e"," ","d","a","t","a","b","a","s","e"," ","s","t","o","r",
      "e","s"," ","h","a","b","i","t"," ","r","e","c","o","r","d","s">>

PromptScenarioA ==
    <<"h","a","b","i","t"," ","l","o","g","g","i","n","g"," ","d","a","t",
      "a","b","a","s","e">>

PromptDatabase == <<"d","a","t","a","b","a","s","e">>

MetadataR1 == Dict(PyStr("r1"), PyStr("requirements"))

MetadataR2 == Dict(PyStr("r2"), PyStr("architecture"))

DoAddR1 ==
    /\ nadds < MaxAdds
    /\ Add(TextR1, MetadataR1, now + 1)

DoAddR2 ==
    /\ nadds < MaxAdds
    /\ Add(TextR2, MetadataR2, now + 1)

DoQueryScenarioA ==
    \E prompt \in {PromptScenarioA, PromptDatabase}, n \in Ns \cup {DefaultN} :
        Query(prompt, n)

DoGetByTypeScenarioA ==
    \E entry_type \in {PyStr("requirements"), PyStr("architecture")} :
        GetByType(entry_type)

NextScenarioA ==
    DoAddR1 \/ DoAddR2 \/ DoClear \/ DoQueryScenarioA \/ DoGetByTypeScenarioA
        \/ DoGetRecent

SpecScenarioA == Init /\ [][NextScenarioA]_vars

---------------------------------------------------------------------------
(* SpecInstances: two ConversationMemory objects, as two agents construct   *)
(* them, with calls on either in any interleaving.  entries, max_entries    *)
(* and fresh_adds hold one value per object (the attributes __init__ sets   *)
(* on self), and call records which object the call was made on.            *)

Instances == {1, 2}

\* the call c made on object k
CallOn(k, c) ==
    [self |-> k, op |-> c.op, text |-> c.text, n |-> c.n,
     metadata |-> c.metadata, entry_type |-> c.entry_type]

InitInstances ==
    /\ entries = [k \in Instances |-> <<>>]
    /\ max_entries = [k \in Instances |-> DefaultMaxEntries]
    /\ now = 0
    /\ call = CallOn(0, NoCall)
    /\ raised = FALSE
    /\ result = <<>>
    /\ scored = <<>>
    /\ nadds = 0
    /\ fresh_adds = [k \in Instances |-> 0]
    /\ frame = NoFrame
    /\ agent = NewAgent
    /\ memory = NewProjectMemory("core/memory.py")

\* add as if entries were one list shared by the class
AddOn_SharedList(k, text, metadata, ts) ==
    /\ entries' = [j \in Instances |->
                      AddEntries(entries[j], max_entries[j], text, metadata, ts)]
    /\ now' = ts
    /\ call' = CallOn(k, [NoCall EXCEPT !.op = "add", !.text = text,
                                        !.metadata = metadata])
    /\ raised' = FALSE
    /\ result' = <<>>
    /\ scored' = <<>>
    /\ nadds' = nadds + 1
    /\ fresh_adds' = [fresh_adds EXCEPT ![k] = @ + 1]
    /\ UNCHANGED <<max_entries, frame, agent, memory>>

AddOn(k, text, metadata, ts) ==
    /\ entries' = [entries EXCEPT
                      ![k] = AddEntries(entries[k], max_entries[k], text, metadata, ts)]
    /\ now' = ts
    /\ call' = CallOn(k, [NoCall EXCEPT !.op = "add", !.text = text,
                                        !.metadata = metadata])
    /\ raised' = FALSE
    /\ result' = <<>>
    /\ scored' = <<>>
    /\ nadds' = nadds + 1
    /\ fresh_adds' = [fresh_adds EXCEPT ![k] = @ + 1]
    /\ UNCHANGED <<max_entries, frame, agent, memory>>

ClearOn(k) ==
    /\ entries' = [entries EXCEPT ![k] = <<>>]
    /\ call' = CallOn(k, [NoCall EXCEPT !.op = "clear"])
    /\ raised' = FALSE
    /\ result' = <<>>
    /\ scored' = <<>>
    /\ fresh_adds' = [fresh_adds EXCEPT ![k] = 0]
    /\ UNCHANGED <<max_entries, now, nadds, frame, agent, memory>>

QueryOn(k, prompt, n) ==
    /\ call' = CallOn(k, [NoCall EXCEPT !.op = "query", !.text = prompt, !.n = n])
    /\ IF QueryRaises(entries[k])
       THEN /\ raised' = TRUE
            /\ result' = <<>>
            /\ scored' = <<>>
       ELSE /\ raised' = FALSE
            /\ scored' = IF entries[k] = <<>> THEN <<>>
                         ELSE ScoreAll(entries[k], prompt)
            /\ result' = IF entries[k] = <<>> THEN <<>>
                         ELSE TopTexts(entries[k], scored', n)
    /\ UNCHANGED <<entries, max_entries, now, nadds, fresh_adds, frame, agent, memory>>

GetByTypeOn(k, entry_type) ==
    /\ call' = CallOn(k, [NoCall EXCEPT !.op = "get_by_type",
                                        !.entry_type = entry_type])
    /\ raised' = FALSE
    /\ result' = GetByTypeResult(entries[k], entry_type)
    /\ scored' = <<>>
    /\ UNCHANGED <<entries, max_entries, now, nadds, fresh_adds, frame, agent, memory>>

GetRecentOn(k, n) ==
    /\ call' = CallOn(k, [NoCall EXCEPT !.op = "get_recent", !.n = n])
    /\ raised' = FALSE
    /\ result' = GetRecentResult(entries[k], n)
    /\ scored' = <<>>
    /\ UNCHANGED <<entries, max_entries, now, nadds, fresh_adds, frame, agent, memory>>

DoAddOn ==
    /\ nadds < MaxAdds
    /\ \E k \in Instances, text \in Texts : AddOn(k, text, NoMetadata, now + 1)

DoClearOn == \E k \in Instances : ClearOn(k)

DoQueryOn == \E k \in Instances, n \in Ns : QueryOn(k, PromptHabits, n)

DoGetByTypeOn == \E k \in Instances : GetByTypeOn(k, PyStr("general"))

DoGetRecentOn == \E k \in Instances, n \in Ns : GetRecentOn(k, n)

NextInstances ==
    DoAddOn \/ DoClearOn \/ DoQueryOn \/ DoGetByTypeOn \/ DoGetRecentOn

SpecInstances == InitInstances /\ [][NextInstances]_vars

---------------------------------------------------------------------------
(* SpecKeywords: _extract_keywords applied to a text made of at most        *)
(* MaxPieces pieces, then applied again to its own result joined by spaces. *)
(* No piece holds a space, so only a joined result does.                    *)

Pieces ==
    {<<"a","d","d">>, <<"d","a","d">>, <<"a","n","d">>, <<"a","n">>,
     <<"_">>, <<"-">>, <<"é">>, <<"D">>}

RECURSIVE Concat(_)
Concat(ps) == IF ps = <<>> THEN <<>> ELSE Head(ps) \o Concat(Tail(ps))

KeywordTexts ==
    {Concat(ps) : ps \in UNION {[1..k -> Pieces] : k \in 0..MaxPieces}}

\* the object after __init__, with the text to be passed to the first call
InitKeywords ==
    \E text \in KeywordTexts :
        /\ entries = <<>>
        /\ max_entries = DefaultMaxEntries
        /\ now = 0
        /\ call = [NoCall EXCEPT !.text = text]
        /\ raised = FALSE
        /\ result = <<>>
        /\ scored = <<>>
        /\ nadds = 0
        /\ fresh_adds = 0
        /\ frame = NoFrame
        /\ agent = NewAgent
        /\ memory = NewProjectMemory("core/memory.py")

\* the keywords in K, each a word of s, as character sequences
WordsOf(K, s) ==
    {w \in {SubSeq(s, i, j) : i, j \in 1..Len(s)} : w # <<>> /\ JoinChars(w) \in K}

\* " ".join(ws)
RECURSIVE JoinWords(_)
JoinWords(ws) ==
    IF ws = <<>> THEN <<>>
    ELSE IF Len(ws) = 1 THEN ws[1]
    ELSE ws[1] \o <<" ">> \o JoinWords(Tail(ws))

\* " ".join(K) for every order of listing the set K of keywords of s
SpaceJoined(K, s) ==
    LET W == WordsOf(K, s)
    IN  {JoinWords(order) :
            order \in {f \in [1..Cardinality(W) -> W] :
                          \A a, b \in DOMAIN f : a # b => f[a] # f[b]}}

DoExtract ==
    /\ call.op = "init"
    /\ ExtractKeywordsCall(call.text)

DoReExtract ==
    /\ call.op = "_extract_keywords"
    /\ \E joined \in SpaceJoined(result, Lower(call.text)) :
          ExtractKeywordsCall(joined)

NextKeywords == DoExtract \/ DoReExtract

SpecKeywords == InitKeywords /\ [][NextKeywords]_vars

---------------------------------------------------------------------------
(* Properties *)

IsAddStep == nadds' = nadds + 1

Returned(op) == call.op = op /\ ~raised

\* the total score of the entry at position i (1-based) for the last query,
\* times the store length
TotalScore(i) ==
    CalculateRelevanceScore(entries, entries[i],
                            ExtractKeywords(call.text), Lower(call.text))

\* C1: with the default bound, the store never holds more than max_entries
\* (100) entries, whatever calls are made.
C1_StoreWithinBound ==
    /\ max_entries = DefaultMaxEntries
    /\ Len(entries) <= DefaultMaxEntries

\* an add has just evicted from a full store
C1_Witness ==
    /\ call.op = "add"
    /\ fresh_adds > DefaultMaxEntries
    /\ Len(entries) = DefaultMaxEntries

\* C2: eviction is first-in-first-out: an add on a full store removes exactly
\* the front entry, keeps the order of the others and puts the new entry
\* last; after k consecutive adds on a fresh store the store holds the last
\* min(k, 100) added texts in insertion order.
C2_FifoEviction ==
    [][IsAddStep =>
        /\ Len(entries) = max_entries =>
              /\ Len(entries') = max_entries
              /\ SubSeq(entries', 1, max_entries - 1) = Tail(entries)
              /\ entries'[max_entries].text = call'.text
        /\ Len(entries') = Min(fresh_adds', DefaultMaxEntries)
        /\ \A i \in 1..Len(entries') :
              entries'[i].text = OrdinalText(nadds' - Len(entries') + i)
      ]_vars

\* 105 adds on a fresh store leave adds 6..105
C2_Witness ==
    /\ call.op = "add"
    /\ fresh_adds = 105
    /\ Len(entries) = 100
    /\ entries[1].text = OrdinalText(6)
    /\ entries[100].text = OrdinalText(105)

\* C3: query(prompt, n), n >= 0, returns at most n texts, each the text of a
\* stored entry with a strictly positive total score, in non-increasing
\* order of total score, and no omitted entry scores higher than a returned
\* one.
C3_QueryTopN ==
    Returned("query") =>
        /\ Len(result) <= call.n
        /\ \E pos \in [1..Len(result) -> 1..Len(entries)] :
              /\ \A k, l \in 1..Len(result) : k # l => pos[k] # pos[l]
              /\ \A k \in 1..Len(result) :
                    /\ result[k] = entries[pos[k]].text
                    /\ TotalScore(pos[k]) > 0
                    /\ \A l \in (k + 1)..Len(result) :
                          TotalScore(pos[k]) >= TotalScore(pos[l])
                    /\ \A j \in 1..Len(entries) :
                          (\A l \in 1..Len(result) : pos[l] # j)
                              => TotalScore(j) <= TotalScore(pos[k])

\* a query with n = 1 on two entries returned the later, higher-scored one
\* and omitted the other
C3_Witness ==
    /\ Returned("query")
    /\ call.n = 1
    /\ Len(entries) = 2
    /\ entries[1].text # entries[2].text
    /\ TotalScore(2) > TotalScore(1)
    /\ result = <<entries[2].text>>

\* every 3-word window of s, overlapping ones included
AllWindows(s) ==
    {SubSeq(s, p + 1, PhraseEnd(s, p)) : p \in {q \in 0..Len(s) : PhraseEnd(s, q) > q}}

HasWindowIn(prompt, text) ==
    \E w \in AllWindows(Lower(prompt)) : IsSubstring(w, Lower(text))

\* C4: if any three consecutive words of the lowercased query, at any word
\* offset, occur as a substring of the lowercased entry text, the entry's
\* score includes the 5-point phrase bonus.
C4_PhraseBonusEveryWindow ==
    Returned("query") =>
        \A i \in 1..Len(entries) :
            HasWindowIn(call.text, entries[i].text) =>
                scored[i] =
                    (KeywordScore(entries[i], ExtractKeywords(call.text))
                        + TypePriority(entries[i].type) + 5) * Len(entries)
                    + RecencyTimesLen(entries, entries[i])

\* the score of entry i without its recency component
OtherComponents(i) ==
    KeywordScore(entries[i], ExtractKeywords(call.text))
        + TypePriority(entries[i].type)
        + PhraseBonus(entries[i], Lower(call.text))

\* C5: the recency component of the entry at zero-based position i of N
\* entries is 2*i/N, so of two entries with equal other components the later
\* one scores strictly higher, also when the two entries are identical.
C5_RecencyFromOwnPosition ==
    Returned("query") =>
        /\ \A i \in 1..Len(entries) :
              scored[i] = OtherComponents(i) * Len(entries) + 2 * (i - 1)
        /\ \A i, j \in 1..Len(entries) :
              (i < j /\ OtherComponents(i) = OtherComponents(j))
                  => scored[j] > scored[i]

\* C6: get_recent(n), n >= 0 (n = 0 included), returns the texts of the last
\* min(n, len(store)) entries, most recent first.
C6_GetRecentLastN ==
    (Returned("get_recent") /\ call.n >= 0) =>
        LET k == Min(call.n, Len(entries))
        IN  /\ Len(result) = k
            /\ \A i \in 1..k : result[i] = entries[Len(entries) + 1 - i].text

\* C7: under single-threaded use query never raises, whatever texts and
\* metadata bags the store was filled with.
C7_QueryNeverRaises == call.op = "query" => ~raised

\* the case of C8: one entry of type general, no keyword in common with the
\* query and no phrase match
ZeroScoreCase ==
    /\ Returned("query")
    /\ Len(entries) = 1
    /\ entries[1].type = PyStr("general")
    /\ ExtractKeywords(call.text) \cap entries[1].keywords = {}
    /\ ~HasWindowIn(call.text, entries[1].text)

\* C8 as stated: in that case the entry scores 0 and query returns an empty
\* sequence.
C8_ZeroScoreEmptyResult ==
    ZeroScoreCase => scored[1] = 0 /\ result = <<>>

\* C8 as amended: in that case the entry scores exactly 1, its type priority,
\* and query returns its text for every n >= 1.
C8_LowestScoreIsOne ==
    ZeroScoreCase =>
        /\ scored[1] = 1
        /\ result = IF call.n >= 1 THEN <<entries[1].text>> ELSE <<>>

C8_Witness ==
    /\ ZeroScoreCase
    /\ call.n >= 1
    /\ result = <<entries[1].text>>

\* the value dict.get gives for a key of the metadata argument
Given(metadata, key, default) ==
    IF metadata.none \/ metadata.dict[key] = Absent
    THEN default
    ELSE metadata.dict[key]

\* C9: add always succeeds and appends exactly one entry with the given
\* text, keywords extractKeywords(text), id metadata.id if present and
\* otherwise entry_<store length before the append>, type metadata.type if
\* present and otherwise general, and the caller's metadata bag unchanged.
C9_AddAppendsEntry ==
    [][IsAddStep =>
        LET e  == entries'[Len(entries')]
            md == call'.metadata
        IN  /\ call'.op = "add" /\ ~raised'
            /\ Len(entries) < max_entries => entries' = Append(entries, e)
            /\ e.text = call'.text
            /\ e.keywords = ExtractKeywords(call'.text)
            /\ e.id = Given(md, "id", PyStr("entry_" \o ToString(Len(entries))))
            /\ e.type = Given(md, "type", PyStr("general"))
            /\ e.metadata = IF md.none THEN EmptyDict ELSE md.dict
      ]_vars

\* a second add without metadata got id entry_1, type general and the
\* keywords of "log habits"
C9_Witness ==
    /\ call.op = "add"
    /\ call.metadata = NoMetadata
    /\ call.text = TextLogHabits
    /\ Len(entries) = 2
    /\ entries[2].id = PyStr("entry_1")
    /\ entries[2].type = PyStr("general")
    /\ entries[2].keywords = {"log", "habits"}

\* a key present with a null or non-string value
Malformed(v) == v # Absent /\ v[1] # "str"

\* C10: a metadata id or type that is null or otherwise malformed is treated
\* as absent: the entry gets the auto id and the type general, and
\* get_by_type("general") afterwards includes it.
C10_MalformedAsAbsent ==
    /\ call.op = "add" =>
          LET e == entries[Len(entries)]
          IN  /\ Malformed(e.metadata.type) => e.type = PyStr("general")
              /\ Malformed(e.metadata.id)
                    => e.id = PyStr("entry_" \o ToString(Len(entries) - 1))
    /\ (Returned("get_by_type") /\ call.entry_type = PyStr("general")) =>
          \A i \in 1..Len(entries) :
              Malformed(entries[i].metadata.type)
                  => \E k \in 1..Len(result) : result[k] = entries[i].text

\* the maximal runs of [a-z0-9] in s
AsciiRuns(s) ==
    {SubSeq(s, pq[1] + 1, pq[2]) : pq \in
        {x \in (0..Len(s)) \X (0..Len(s)) :
            /\ x[1] < x[2]
            /\ \A i \in (x[1] + 1)..x[2] : s[i] \in AlnumChars
            /\ x[1] = 0 \/ s[x[1]] \notin AlnumChars
            /\ x[2] = Len(s) \/ s[x[2] + 1] \notin AlnumChars}}

\* C11: for every input text, _extract_keywords returns exactly the maximal
\* runs of ASCII letters and digits of the lowercased text (every other
\* character, underscore and non-ASCII letters included, separating them)
\* that are not stop words and are longer than 2.
C11_KeywordsAreAsciiRuns ==
    call.op = "_extract_keywords" =>
        result = {JoinChars(r) : r \in
                    {w \in AsciiRuns(Lower(call.text)) :
                        Len(w) > 2 /\ JoinChars(w) \notin stop_words}}

\* C18: extracting keywords from the keywords of a text, joined by spaces in
\* any order, gives the same set again.
C18_ExtractionFixedPoint ==
    [][call.op = "_extract_keywords" =>
          /\ call'.op = "_extract_keywords"
          /\ call'.text \in SpaceJoined(result, Lower(call.text))
          /\ result' = result
      ]_vars

\* the two keywords of a text were joined as "dad add" and extracted again
C18_Witness ==
    /\ call.op = "_extract_keywords"
    /\ call.text = <<"d","a","d"," ","a","d","d">>
    /\ result = {"add", "dad"}

\* C12: ties are broken by store order: of two stored entries with exactly
\* equal total scores for a query, the one at the earlier index comes first
\* in the result, and the later one is returned only if the earlier one is.
C12_StableTies ==
    Returned("query") =>
        \E pos \in [1..Len(result) -> 1..Len(entries)] :
            /\ \A k, l \in 1..Len(result) : k # l => pos[k] # pos[l]
            /\ \A k \in 1..Len(result) : result[k] = entries[pos[k]].text
            /\ \A i, j \in 1..Len(entries) :
                  (i < j /\ scored[i] = scored[j]) =>
                      \A l \in 1..Len(result) :
                          pos[l] = j => \E k \in 1..(l - 1) : pos[k] = i

\* a qa entry at index 0 and a general entry at index 1 tied (2 + 0 and
\* 1 + 1) and were returned in store order
C12_Witness ==
    /\ Returned("query")
    /\ call.n = 2
    /\ Len(entries) = 2
    /\ entries[1].type = PyStr("qa") /\ entries[2].type = PyStr("general")
    /\ entries[1].text # entries[2].text
    /\ scored[1] = scored[2]
    /\ result = <<entries[1].text, entries[2].text>>

ReadOps == {"query", "get_recent", "get_by_type"}

\* what query(prompt, n) returns on the store es
QueryValue(es, prompt, n) ==
    IF es = <<>> THEN <<>> ELSE TopTexts(es, ScoreAll(es, prompt), n)

\* C13: query, get_recent and get_by_type leave the store as it was (same
\* entries, same order, same fields), so a query asked again with the same
\* prompt and n, with only such calls in between, returns the same sequence:
\* the one the query just made returned, computed from the store it left.
C13_ReadsKeepStore ==
    [][call'.op \in ReadOps =>
          /\ entries' = entries
          /\ max_entries' = max_entries
          /\ (call'.op = "query" /\ ~raised') =>
                result' = QueryValue(entries', call'.text, call'.n)
      ]_vars

\* a query on a store of two different entries returned both
C13_Witness ==
    /\ Returned("query")
    /\ Len(entries) = 2
    /\ entries[1] # entries[2]
    /\ Len(result) = 2
    /\ fresh_adds = 2

\* C14: clear empties the store in one step from any state, and the first add
\* without a caller-supplied id after a clear gets the id entry_0.
C14_ClearRestartsIds ==
    [][/\ call'.op = "clear" => entries' = <<>>
       /\ (IsAddStep /\ nadds > 0 /\ fresh_adds = 0
              /\ Given(call'.metadata, "id", Absent) = Absent) =>
             /\ Len(entries') = 1
             /\ entries'[1].id = PyStr("entry_0")
      ]_vars

\* a full store was cleared and the add after it got the id entry_0
C14_Witness ==
    /\ call.op = "add"
    /\ nadds > DefaultMaxEntries
    /\ fresh_adds = 1
    /\ Len(entries) = 1
    /\ entries[1].id = PyStr("entry_0")

\* the store positions whose entry has the type t
OfType(t) == {i \in 1..Len(entries) : entries[i].type = t}

\* C15: get_by_type(t) returns exactly the texts of the stored entries whose
\* type equals t, in store order, none left out and none added.
C15_GetByTypeFilters ==
    Returned("get_by_type") =>
        LET idx == OfType(call.entry_type)
        IN  /\ Len(result) = Cardinality(idx)
            /\ \A i \in idx :
                  result[Cardinality({j \in idx : j <= i})] = entries[i].text

\* of two general entries with different texts, get_by_type("general") returned the two general texts in store order
C15_Witness ==
    /\ Returned("get_by_type")
    /\ call.entry_type = PyStr("general")
    /\ Len(entries) = 2
    /\ OfType(PyStr("general")) = {1, 2}
    /\ entries[1].text # entries[2].text
    /\ result = <<entries[1].text, entries[2].text>>

\* C16: no operation changes a field of a stored entry; add leaves a suffix
\* of the old sequence followed by one new entry (eviction only from the
\* front), clear leaves the empty sequence, every other operation leaves the
\* sequence as it was.
C16_AppendOrTruncateOnly ==
    [][/\ call'.op = "add" =>
             \E k \in 0..Len(entries) :
                 /\ Len(entries') = Len(entries) - k + 1
                 /\ SubSeq(entries', 1, Len(entries') - 1)
                        = SubSeq(entries, k + 1, Len(entries))
                 /\ entries'[Len(entries')].text = call'.text
       /\ call'.op = "clear" => entries' = <<>>
       /\ call'.op \notin {"add", "clear"} => entries' = entries
      ]_vars

\* the second add on a full store: adds 3..102 are left, in order
C16_Witness ==
    /\ call.op = "add"
    /\ fresh_adds = 102
    /\ Len(entries) = 100
    /\ entries[1].id = PyStr("entry_2")
    /\ entries[99].id = PyStr("entry_100")
    /\ entries[100].id = PyStr("entry_100")

\* the store of Scenario A: r1 added to the empty store, then r2
ScenarioAStore ==
    /\ Len(entries) = 2
    /\ fresh_adds = 2
    /\ entries[1].id = PyStr("r1") /\ entries[1].type = PyStr("requirements")
    /\ entries[1].text = TextR1
    /\ entries[2].id = PyStr("r2") /\ entries[2].type = PyStr("architecture")
    /\ entries[2].text = TextR2

\* C17: Scenario A: after add(r1) and add(r2) on an empty store,
\* query("habit logging database", 5) returns both texts, r2's text at or
\* above r1's.
C17_ScenarioA ==
    (ScenarioAStore /\ call.op = "query" /\ call.text = PromptScenarioA
        /\ call.n = DefaultN) =>
        /\ ~raised
        /\ result = <<TextR2, TextR1>>

\* the query of Scenario A was made: r1 scored 5 and r2 scored 10 (both
\* doubled here, the store holding 2 entries)
C17_Witness ==
    /\ ScenarioAStore
    /\ Returned("query") /\ call.text = PromptScenarioA /\ call.n = DefaultN
    /\ scored = <<10, 20>>
    /\ result = <<TextR2, TextR1>>

\* C19: whenever the store is empty, freshly constructed or just cleared,
\* query returns the empty sequence for every prompt and every n, and scores
\* nothing.
C19_EmptyStoreEmptyResult ==
    (call.op = "query" /\ entries = <<>>) =>
        /\ ~raised
        /\ result = <<>>
        /\ scored = <<>>

\* a query with keywords and n = 2 on a store that was filled and cleared
C19_Witness ==
    /\ Returned("query")
    /\ entries = <<>>
    /\ nadds = 2 /\ fresh_adds = 0
    /\ call.text = PromptHabits /\ call.n = 2
    /\ result = <<>>

\* C20: stores are isolated per instance: a call on one ConversationMemory
\* object, add and clear included, leaves the entries of every other object
\* as they were, and what query, get_recent and get_by_type return on an
\* object is computed from that object's entries alone, whatever calls on
\* the other object came in between.
C20_InstancesIsolated ==
    [][/\ \A k \in Instances :
             call'.self # k =>
                 /\ entries'[k] = entries[k]
                 /\ max_entries'[k] = max_entries[k]
       /\ (call'.op = "query" /\ ~raised') =>
             result' = QueryValue(entries[call'.self], call'.text, call'.n)
       /\ call'.op = "get_recent" =>
             result' = GetRecentResult(entries[call'.self], call'.n)
       /\ call'.op = "get_by_type" =>
             result' = GetByTypeResult(entries[call'.self], call'.entry_type)
      ]_vars

\* each object got one entry, then the first was cleared: the second still
\* holds its entry
C20_Witness ==
    /\ call.op = "clear" /\ call.self = 1
    /\ nadds = 2
    /\ entries[1] = <<>>
    /\ Len(entries[2]) = 1
    /\ fresh_adds[2] = 1

\* the score of entry i without its keyword component, times the store length
WithoutOverlap(i) ==
    (TypePriority(entries[i].type) + PhraseBonus(entries[i], Lower(call.text)))
        * Len(entries)
    + RecencyTimesLen(entries, entries[i])

RECURSIVE WithoutOverlapFrom(_)
WithoutOverlapFrom(i) ==
    IF i > Len(entries) THEN <<>>
    ELSE <<WithoutOverlap(i)>> \o WithoutOverlapFrom(i + 1)

\* C21: the keyword component of every entry's score is
\* min(2 * |queryKeywords \cap entryKeywords|, 10), and 0 when either set is
\* empty; for a query of stop words only it is 0 for every entry, and the
\* result is ordered by type priority + recency + phrase bonus alone.
C21_OverlapCappedAtTen ==
    Returned("query") =>
        LET q == ExtractKeywords(call.text)
        IN  /\ \A i \in 1..Len(entries) :
                  LET k == entries[i].keywords
                      c == IF q = {} \/ k = {} THEN 0
                           ELSE Min(2 * Cardinality(q \cap k), 10)
                  IN  scored[i] = c * Len(entries) + WithoutOverlap(i)
            /\ q = {} =>
                  result = TopTexts(entries, WithoutOverlapFrom(1), call.n)

\* six shared keywords gave 10, not 12: the general entry scored 10 + 1
C21_Witness ==
    /\ Returned("query")
    /\ call.text = PromptColoursBack
    /\ Len(entries) = 1
    /\ entries[1].text = TextColours
    /\ Cardinality(ExtractKeywords(call.text) \cap entries[1].keywords) = 6
    /\ entries[1].type = PyStr("general")
    /\ scored[1] = 11

\* the phrase component of the score of entry i, times the store length
PhraseComponent(i) ==
    scored[i]
    - (KeywordScore(entries[i], ExtractKeywords(call.text))
          + TypePriority(entries[i].type)) * Len(entries)
    - RecencyTimesLen(entries, entries[i])

\* C22: the phrase bonus is binary per entry: 0 or exactly 5, however many
\* 3-word phrases of the query occur in the entry text.
C22_PhraseBonusOnce ==
    Returned("query") =>
        \A i \in 1..Len(entries) : PhraseComponent(i) \in {0, 5 * Len(entries)}

\* both phrases of the query, "red green blue" and "cyan pink gold", occur in
\* the entry text and the bonus is 5: the general entry scored 10 + 1 + 5
C22_Witness ==
    /\ Returned("query")
    /\ call.text = TextColours
    /\ Len(entries) = 1
    /\ entries[1].text = TextColours
    /\ Len(FindPhrases(Lower(call.text), 0)) = 2
    /\ \A k \in 1..2 :
          IsSubstring(FindPhrases(Lower(call.text), 0)[k], Lower(entries[1].text))
    /\ entries[1].type = PyStr("general")
    /\ scored[1] = 16

\* the type-priority component of the score of entry i
TypeComponent(i) ==
    (scored[i] - RecencyTimesLen(entries, entries[i])) \div Len(entries)
    - KeywordScore(entries[i], ExtractKeywords(call.text))
    - PhraseBonus(entries[i], Lower(call.text))

\* C23: the type-priority component is requirements 5, architecture 5,
\* explanation 4, recommendations 3, qa 2, general 1, and every other type
\* tag scores as general does, 1.
C23_TypePriorityTable ==
    Returned("query") =>
        \A i \in 1..Len(entries) :
            LET t == entries[i].type[2]
            IN  TypeComponent(i) =
                    IF t \in {"requirements", "architecture"} THEN 5
                    ELSE IF t = "explanation" THEN 4
                    ELSE IF t = "recommendations" THEN 3
                    ELSE IF t = "qa" THEN 2
                    ELSE 1

\* an entry with a tag of the caller's own ahead of an explanation entry:
\* they scored 1 + 0 and 4 + 1
C23_Witness ==
    /\ Returned("query")
    /\ Len(entries) = 2
    /\ entries[1].type = PyStr(CallerTag)
    /\ entries[2].type = PyStr("explanation")
    /\ scored = <<2, 10>>

\* C24: for every non-negative m assigned to max_entries, 0 and values below
\* the current store length included, after each later add the store holds
\* at most m entries, and they are the most recently added ones.
C24_TunableBoundHolds ==
    call.op = "add" =>
        /\ Len(entries) <= max_entries
        /\ \A i \in 1..Len(entries) :
              entries[i].text = OrdinalText(nadds - Len(entries) + i)

\* C25: every stored entry scores at least 1 against every query, so on a
\* non-empty store query(prompt, n), n >= 0, returns exactly
\* min(n, len(store)) texts: the score > 0 filter drops nothing.
C25_EveryEntryScores ==
    (call.op = "query" /\ entries # <<>> /\ call.n >= 0) =>
        /\ ~raised
        /\ Len(scored) = Len(entries)
        /\ \A i \in 1..Len(entries) : scored[i] >= Len(entries)
        /\ Len(result) = Min(call.n, Len(entries))

C27_InterleavedQuerySafe ==
    (call.op = "query" /\ ~frame.active) =>
        /\ ~raised
        /\ \A k \in 1..Len(result) :
              \E j \in 1..Len(frame.start) : frame.start[j].text = result[k]

---------------------------------------------------------------------------
(* ArchitectureAgent: plan and answer over its ProjectMemory and its store *)
(* The agent is written against the methods of ProjectMemory in memory.py; *)
(* the module it imports, core/memory.py, defines a class without them.    *)

\* writes (store entries, decisions, open questions) in one run of SpecAgent
MaxAgentWrites == 6

\* what the engines hand to plan: one functional requirement, and the
\* formatted requirements, architecture and recommendations
RequirementIdea == <<"l","o","g"," ","h","a","b","i","t","s">>

TextRequirements ==
    <<"\n","F","U","N","C","T","I","O","N","A","L",":","\n"," "," ","-"," ">>
        \o RequirementIdea

TextArchitecture ==
    <<"S","t","y","l","e",":"," ","m","o","n","o","l","i","t","h">>

TextTechStacks ==
    <<"S","t","a","c","k",":"," ","d","a","t","a","b","a","s","e">>

\* what the user types, and what the model answers
QueryHabits == <<"h","a","b","i","t","s"," ","l","o","g">>
QueryOne == <<"1">>
QueryTwoPadded == <<" ","2","\n">>
QueryFive == <<"5">>
UserQueries == {QueryHabits, QueryOne, QueryTwoPadded, QueryFive}
AnswerText == <<"y","e","s">>

\* str.strip()
StripChars == {" ", "\t", "\n", "\r"}
RECURSIVE LStrip(_)
LStrip(s) == IF s # <<>> /\ Head(s) \in StripChars THEN LStrip(Tail(s)) ELSE s
RECURSIVE RStrip(_)
RStrip(s) ==
    IF s # <<>> /\ s[Len(s)] \in StripChars
    THEN RStrip(SubSeq(s, 1, Len(s) - 1)) ELSE s
Strip(s) == RStrip(LStrip(s))

\* the keys of responses in _handle_scope_decision
ScopeChoices == {<<"1">>, <<"2">>, <<"3">>, <<"4">>}

\* responses[choice], the leading symbol left out
ScopeResponse(choice) ==
    IF choice = <<"1">> THEN "Scope change accepted."
    ELSE IF choice = <<"2">> THEN "Please specify which existing requirements should be replaced."
    ELSE IF choice = <<"3">> THEN "Scope change deferred."
    ELSE "Scope change cancelled."

\* context_docs = self.retrieval.query(user_query, n=5)
ContextDocs(es, user_query) ==
    IF es = <<>> THEN <<>> ELSE TopTexts(es, ScoreAll(es, user_query), DefaultN)

\* f"Q: {user_query}\nA: {answer}"
QAText(user_query, answer) ==
    <<"Q", ":", " ">> \o user_query \o <<"\n", "A", ":", " ">> \o answer

\* metadata={"id": f"qa_{len(context_docs)}", "type": "qa"}
QAMetadata(context_docs) ==
    Dict(PyStr("qa_" \o ToString(Len(context_docs))), PyStr("qa"))

\* the call record of an agent call
AgentCall(op, text) == [NoCall EXCEPT !.op = op, !.text = text]

InitAgent ==
    /\ entries = <<>>
    /\ max_entries = DefaultMaxEntries
    /\ now = 0
    /\ call = NoCall
    /\ raised = FALSE
    /\ result = "none"
    /\ scored = <<>>
    /\ nadds = 0
    /\ fresh_adds = 0
    /\ frame = NoFrame
    /\ agent = NewAgent
    /\ \E class \in MemoryClasses : memory = NewProjectMemory(class)

\* plan(idea): set_initial_idea raises AttributeError on a class without
\* it; otherwise the requirements, the architecture with its decision and
\* the recommendations are stored (an architecture without components has
\* no explanations) and planning_complete is set
Plan(idea) ==
    LET ts == now + 1
        planned ==
            WithDecision(
                WithRequirements(memory, "functional", <<idea>>, ts),
                "Selected architecture",
                "Based on project requirements and constraints", ts)
        e1 == AddEntries(entries, max_entries, TextRequirements,
                         Dict(PyStr("requirements"), PyStr("requirements")), ts)
        e2 == AddEntries(e1, max_entries, TextArchitecture,
                         Dict(PyStr("architecture"), PyStr("architecture")), ts)
        e3 == AddEntries(e2, max_entries, TextTechStacks,
                         Dict(PyStr("tech_stacks"), PyStr("recommendations")), ts)
    IN  /\ call' = AgentCall("plan", idea)
        /\ scored' = <<>>
        /\ IF Lacks(memory, "set_initial_idea")
           THEN /\ raised' = TRUE
                /\ result' = "none"
                /\ UNCHANGED <<entries, now, nadds, fresh_adds, agent, memory>>
           ELSE /\ raised' = FALSE
                /\ result' = "plan"
                /\ memory' = [planned EXCEPT !.data.sections = "planned"]
                /\ entries' = e3
                /\ now' = ts
                /\ nadds' = nadds + 3
                /\ fresh_adds' = fresh_adds + 3
                /\ agent' = [agent EXCEPT !.planning_complete = TRUE]
        /\ UNCHANGED <<max_entries, frame>>

\* how far answer runs: the scope check with the detector's verdict, the
\* reply to a scope prompt, the retrieval, the prompt text, the model call
AnswerOutcome(user_query, handle_scope_creep, prompt_user, model_returns) ==
    LET detecting == handle_scope_creep /\ agent.planning_complete
    IN  IF detecting /\ Lacks(memory, "get_initial_idea") THEN "AttributeError"
        ELSE IF detecting /\ prompt_user
             THEN IF Lacks(memory, "add_open_question") THEN "AttributeError"
                  ELSE "alert"
        ELSE IF Strip(user_query) \in ScopeChoices
             THEN IF Lacks(memory, "add_decision") THEN "AttributeError"
                  ELSE "decision"
        ELSE IF QueryRaises(entries) THEN "TypeError"
        ELSE IF Lacks(memory, "get_architecture_style") THEN "AttributeError"
        ELSE IF model_returns THEN "answer"
        ELSE "error"

\* the exchange stored before the model is asked, outside the try block
Answer_StoresQuestionFirst(user_query, handle_scope_creep, prompt_user, model_returns) ==
    LET ts == now + 1
        outcome == AnswerOutcome(user_query, handle_scope_creep, prompt_user,
                                 model_returns)
        context_docs == ContextDocs(entries, user_query)
    IN  /\ call' = AgentCall("answer", user_query)
        /\ raised' = (outcome \in {"AttributeError", "TypeError"})
        /\ result' = IF raised' THEN "none" ELSE outcome
        /\ scored' = <<>>
        /\ memory' =
              IF outcome = "alert"
              THEN WithOpenQuestion(memory, "Scope change detected", ts)
              ELSE IF outcome = "decision"
              THEN WithDecision(memory,
                       "Scope change decision: " \o ScopeResponse(Strip(user_query)),
                       "None", ts)
              ELSE memory
        /\ IF outcome \in {"answer", "error"}
           THEN /\ entries' = AddEntries(entries, max_entries,
                                  QAText(user_query, AnswerText),
                                  QAMetadata(context_docs), ts)
                /\ nadds' = nadds + 1
                /\ fresh_adds' = fresh_adds + 1
           ELSE UNCHANGED <<entries, nadds, fresh_adds>>
        /\ now' = IF outcome \in {"alert", "decision", "answer"} THEN ts ELSE now
        /\ UNCHANGED <<max_entries, frame, agent>>

\* answer(user_query, handle_scope_creep); the detector's verdict and the
\* model's reply or failure are the language model's
Answer(user_query, handle_scope_creep, prompt_user, model_returns) ==
    LET ts == now + 1
        outcome == AnswerOutcome(user_query, handle_scope_creep, prompt_user,
                                 model_returns)
        context_docs == ContextDocs(entries, user_query)
    IN  /\ call' = AgentCall("answer", user_query)
        /\ raised' = (outcome \in {"AttributeError", "TypeError"})
        /\ result' = IF raised' THEN "none" ELSE outcome
        /\ scored' = IF outcome \in {"answer", "error"} /\ entries # <<>>
                     THEN ScoreAll(entries, user_query) ELSE <<>>
        /\ memory' =
              IF outcome = "alert"
              THEN WithOpenQuestion(memory, "Scope change detected", ts)
              ELSE IF outcome = "decision"
              THEN WithDecision(memory,
                       "Scope change decision: " \o ScopeResponse(Strip(user_query)),
                       "None", ts)
              ELSE memory
        /\ IF outcome = "answer"
           THEN /\ entries' = AddEntries(entries, max_entries,
                                  QAText(user_query, AnswerText),
                                  QAMetadata(context_docs), ts)
                /\ nadds' = nadds + 1
                /\ fresh_adds' = fresh_adds + 1
           ELSE UNCHANGED <<entries, nadds, fresh_adds>>
        /\ now' = IF outcome \in {"alert", "decision", "answer"} THEN ts ELSE now
        /\ UNCHANGED <<max_entries, frame, agent>>

\* the store entries, decisions and open questions written so far
AgentWrites ==
    nadds + Len(memory.data.decisions) + Len(memory.data.open_questions)

DoPlan ==
    /\ AgentWrites = 0
    /\ Plan(RequirementIdea)

DoAnswer ==
    /\ AgentWrites < MaxAgentWrites
    /\ \E user_query \in UserQueries, handle_scope_creep \in BOOLEAN,
          prompt_user \in BOOLEAN, model_returns \in BOOLEAN :
          Answer(user_query, handle_scope_creep, prompt_user, model_returns)

NextAgent == DoPlan \/ DoAnswer

SpecAgent == InitAgent /\ [][NextAgent]_vars

---------------------------------------------------------------------------
(* Properties of the agent *)

\* the previous response of the agent was a scope alert
AfterAlert == call.op = "answer" /\ ~raised /\ result = "alert"

C29_StoresOnlyAnswers ==
    [][call'.op = "answer" =>
          IF ~raised' /\ result' = "answer"
          THEN /\ Len(entries') = Len(entries) + 1
               /\ SubSeq(entries', 1, Len(entries)) = entries
               /\ entries'[Len(entries')].type = PyStr("qa")
               /\ entries'[Len(entries')].text = QAText(call'.text, AnswerText)
          ELSE entries' = entries]_vars

\* after plan, a question that drew a scope alert left the three planning
\* entries alone, and the next one, answered by the model with all three as
\* context, is stored as qa_3
C29_Witness ==
    /\ call.op = "answer"
    /\ result = "answer"
    /\ Len(memory.data.open_questions) = 1
    /\ Len(entries) = 4
    /\ entries[4].id = PyStr("qa_3")
    /\ entries[4].type = PyStr("qa")
    /\ entries[4].text = QAText(QueryHabits, AnswerText)

---------------------------------------------------------------------------
(* ProjectMemory.add_requirement and add_requirements_batch, of either     *)
(* class                                                                   *)

\* requirement records in one run of SpecMemory
MaxRequirements == 3

\* category names a caller passes: one both classes have, one each that
\* only one of them has, one neither has, and the empty string
CategoryNames == {"functional", "nonfunctional", "technical", "features", ""}

RequirementTexts == {RequirementIdea, TextInsights}

RequirementBatches ==
    {<<>>} \cup {<<r>> : r \in RequirementTexts}
           \cup {<<r1, r2>> : r1, r2 \in RequirementTexts}

\* a category the dict lacks created on the fly, as with setdefault
AddRequirement_CreatesCategory(m, category, requirement, ts) ==
    LET reqs == m.data.requirements
        record == [text |-> requirement, added_at |-> ts]
    IN  [raised |-> FALSE,
         memory |-> [m EXCEPT !.data.requirements =
                        [c \in DOMAIN reqs \cup {category} |->
                            IF c = category
                            THEN Append(IF c \in DOMAIN reqs THEN reqs[c] ELSE <<>>,
                                        record)
                            ELSE reqs[c]]]]

\* add_requirement(category, requirement): whether it raises ValueError,
\* and the memory it leaves
AddRequirement(m, category, requirement, ts) ==
    IF category \notin DOMAIN m.data.requirements
    THEN [raised |-> TRUE, memory |-> m]
    ELSE [raised |-> FALSE, memory |-> WithRequirement(m, category, requirement, ts)]

\* add_requirements_batch(category, requirements): the loop ends at the
\* first add_requirement that raises
RECURSIVE AddRequirementsBatch(_, _, _, _)
AddRequirementsBatch(m, category, requirements, ts) ==
    IF requirements = <<>> THEN [raised |-> FALSE, memory |-> m]
    ELSE LET first == AddRequirement(m, category, Head(requirements), ts)
         IN  IF first.raised THEN first
             ELSE AddRequirementsBatch(first.memory, category,
                                       Tail(requirements), ts)

\* the call record of a ProjectMemory call
MemoryCall(op, category, requirements) ==
    [op |-> op, category |-> category, requirements |-> requirements]

\* the number of requirement records m holds
RECURSIVE CountRequirements(_, _)
CountRequirements(m, cs) ==
    IF cs = {} THEN 0
    ELSE LET c == CHOOSE x \in cs : TRUE
         IN  Len(m.data.requirements[c]) + CountRequirements(m, cs \ {c})

\* one ProjectMemory of either class, on its own
InitMemory ==
    /\ entries = <<>>
    /\ max_entries = DefaultMaxEntries
    /\ now = 0
    /\ call = NoCall
    /\ raised = FALSE
    /\ result = <<>>
    /\ scored = <<>>
    /\ nadds = 0
    /\ fresh_adds = 0
    /\ frame = NoFrame
    /\ agent = NewAgent
    /\ \E class \in MemoryClasses : memory = NewProjectMemory(class)

\* a call on the memory with the outcome computed for it
MemoryStep(op, category, requirements, outcome) ==
    /\ call' = MemoryCall(op, category, requirements)
    /\ raised' = outcome.raised
    /\ memory' = outcome.memory
    /\ now' = IF memory' = memory THEN now ELSE now + 1
    /\ UNCHANGED <<entries, max_entries, result, scored, nadds, fresh_adds,
                   frame, agent>>

DoAddRequirement ==
    /\ CountRequirements(memory, DOMAIN memory.data.requirements) < MaxRequirements
    /\ \E category \in CategoryNames, requirement \in RequirementTexts :
          MemoryStep("add_requirement", category, <<requirement>>,
                     AddRequirement(memory, category, requirement, now + 1))

DoAddRequirementsBatch ==
    /\ CountRequirements(memory, DOMAIN memory.data.requirements) + 1 < MaxRequirements
    /\ \E category \in CategoryNames, requirements \in RequirementBatches :
          MemoryStep("add_requirements_batch", category, requirements,
                     AddRequirementsBatch(memory, category, requirements, now + 1))

\* add_decision(decision, rationale), which only the class of memory.py has
DoAddDecision ==
    /\ Len(memory.data.decisions) < 1
    /\ MemoryStep("add_decision", "", <<>>,
                  IF Lacks(memory, "add_decision")
                  THEN [raised |-> TRUE, memory |-> memory]
                  ELSE [raised |-> FALSE,
                        memory |-> WithDecision(memory, "Use monolith",
                                                "Simple for MVP", now + 1)])

NextMemory == DoAddRequirement \/ DoAddRequirementsBatch \/ DoAddDecision

SpecMemory == InitMemory /\ [][NextMemory]_vars

\* C30: add_requirement with a valid category appends exactly one record
\* carrying the given text to that category's list and leaves every other
\* category and section unchanged; with an unknown category it raises
\* ValueError and leaves the whole memory unchanged, and
\* add_requirements_batch with an unknown category adds nothing.
C30_AddRequirementChecksCategory ==
    [][/\ call'.op = "add_requirement" =>
             LET c == call'.category
                 old == memory.data.requirements
                 new == memory'.data.requirements
             IN  IF c \in Categories(memory.class)
                 THEN /\ ~raised'
                      /\ new[c] = Append(old[c], new[c][Len(new[c])])
                      /\ new[c][Len(new[c])].text = call'.requirements[1]
                      /\ memory' = [memory EXCEPT !.data.requirements[c] = new[c]]
                 ELSE /\ raised'
                      /\ memory' = memory
       /\ (/\ call'.op = "add_requirements_batch"
           /\ call'.category \notin Categories(memory.class)) =>
             /\ memory' = memory
             /\ raised' = (call'.requirements # <<>>)]_vars

\* a memory of core/memory.py holding one functional requirement has just
\* refused one for nonfunctional, a category only memory.py has
C30_Witness ==
    /\ call.op = "add_requirement"
    /\ call.category = "nonfunctional"
    /\ raised
    /\ memory.class = "core/memory.py"
    /\ memory.data.requirements =
          [NewProjectMemory("core/memory.py").data.requirements
              EXCEPT !["functional"] = <<[text |-> RequirementIdea, added_at |-> 1]>>]

====
